---- MODULE Spec2Model ----
(***************************************************************************)
(* Conversation client of stratbot.                                        *)
(*                                                                         *)
(* Three generations of the chat client live in the repository:            *)
(*   - the session client: src/stratbot/src/App.tsx on top of the session  *)
(*     API service (src/stratbot/src/services/openai.ts:264-635);          *)
(*   - the thread client: src/unnamed/part_004 on top of the assistants    *)
(*     service (src/stratbot/src/services/openai.ts:1-162).                *)
(*   - the polling client: src/unnamed/part_003, which calls the same      *)
(*     service without a callback (openai.ts:121-157).                     *)
(* Spec is the session client, SpecThread the thread client, SpecPoll the  *)
(* polling client.  All share the React state messages / input /           *)
(* isLoading.                                                              *)
(*                                                                         *)
(* A handler runs to its first await in one step; every await is a record  *)
(* in calls, and its completion (the server's answer together with the     *)
(* continuation of the handler) is one step.  Values a handler closed over *)
(* when it was invoked are kept in the call record, in its cl_ fields.      *)
(***************************************************************************)
EXTENDS Integers, Sequences, FiniteSets, TLC

\* ---------------------------------------------------------------- bounds
MaxOps == 4          \* operations (send, select, create, delete) called
MaxInFlight == 2     \* awaits pending at the same time
MaxClock == 1        \* largest value Date.now() returns
MaxSessions == 2     \* session ids the remote service allocates
MaxDeltas == 2       \* text deltas in one stream
MaxSends == 2        \* sends called in the thread client
MaxPolls == 2        \* non-terminal statuses one run reports
MaxPollSends == 1    \* sends called in the polling client
MaxStreamSends == 1  \* sends dispatched in the thread client under fairness

\* ------------------------------------------------------------- constants
NoSession == 0       \* sessionId === null
SessionIds == 1..MaxSessions
ClockSteps == {0, 1} \* time passing from one handler's Date.now() to the next

\* Texts are sequences of characters; " " is the only whitespace used.
Inputs == {<<>>, <<" ">>, <<" ", "h", "i">>}

\* HTTP statuses a failing request answers with; 0 is a network failure
\* (fetch rejects, there is no response).
FailStatuses == {0}
OkStatus == 200

VARIABLES
    messages,        \* App.tsx:53   useState<Message[]>([])
    input,           \* App.tsx:54   useState('')
    isLoading,       \* App.tsx:55   useState(false)
    sessionId,       \* App.tsx:57   useState<string | null>(null)
    sessions,        \* App.tsx:58   useState<Session[]>([])
    initialLoading,  \* App.tsx:60   useState(true)
    calls,           \* awaits in flight, in the order they were issued
    remoteSessions,  \* the remote service's sessions: free, live or deleted
    remoteMessages,  \* the remote service's message log of every session
    newestFirst,     \* order in which the service lists messages
    configOk,        \* getApiKeysForToken() finds the keys
    threadId,        \* part_004:57  useState<string | null>(null)
    remoteThreads,   \* number of threads the assistants service has created
    assistantId,     \* VITE_OPENAI_ASSISTANT_ID is set
    now,             \* last value Date.now() returned
    nOps,            \* operations called so far
    lastEvent        \* the step taken last (history)

vars == <<messages, input, isLoading, sessionId, sessions, initialLoading,
          calls, remoteSessions, remoteMessages, newestFirst, configOk,
          threadId, remoteThreads, assistantId, now, nOps, lastEvent>>

\* State of the thread client only.
threadVars == <<threadId, remoteThreads, assistantId>>

\* State of the session client and of its service only.
sessionVars == <<sessionId, sessions, initialLoading, remoteSessions,
                 remoteMessages, newestFirst, configOk>>

\* ------------------------------------------------------------ text helpers
RECURSIVE TrimStart(_)
TrimStart(s) ==
    IF s # <<>> /\ Head(s) = " " THEN TrimStart(Tail(s)) ELSE s

RECURSIVE TrimEnd(_)
TrimEnd(s) ==
    IF s # <<>> /\ s[Len(s)] = " " THEN TrimEnd(SubSeq(s, 1, Len(s) - 1)) ELSE s

\* String.prototype.trim
Trim(s) == TrimEnd(TrimStart(s))

\* Array.prototype.join('') of an array of fragments
RECURSIVE Join(_)
Join(frags) ==
    IF frags = <<>> THEN <<>> ELSE Head(frags) \o Join(Tail(frags))

RECURSIVE Reverse(_)
Reverse(s) ==
    IF s = <<>> THEN <<>> ELSE Append(Reverse(Tail(s)), Head(s))

RECURSIVE Filter(_, _)
\* sessions.filter(session => session.id !== id)
Filter(s, id) ==
    IF s = <<>> THEN <<>>
    ELSE IF Head(s) = id THEN Filter(Tail(s), id)
         ELSE <<Head(s)>> \o Filter(Tail(s), id)

RECURSIVE Find(_, _)
\* sessions.find(session => session.id !== id); NoSession for undefined
Find(s, id) ==
    IF s = <<>> THEN NoSession
    ELSE IF Head(s) # id THEN Head(s) ELSE Find(Tail(s), id)

RemoveAt(s, i) == SubSeq(s, 1, i - 1) \o SubSeq(s, i + 1, Len(s))

\* --------------------------------------------------------------- messages
\* Message {id, content: string[], role}; the timestamp is display only.
Msg(id, role, text) == [id |-> id, role |-> role, content |-> <<text>>]

NoSessionText == <<"Error: No active session. Please create a new conversation.">>
SendFailedText == <<"Failed to send message. Please try again later.">>
AuthErrorText == <<"Authentication error: Please check your credentials.">>
RateLimitText == <<"Rate limit exceeded: Too many requests to the API.">>
ServerErrorText == <<"Server error: Please try again later.">>
ReplyText == <<"reply">>
SorryText == <<"Sorry, there was an error processing your request. Please try again later.">>
StreamErrorText == <<"Error: ", "Streaming error: ", "{payload}">>
StreamThrownText == <<"Error: ", "connection lost">>

\* The text values of the deltas a stream delivers.
Deltas == {<<"H">>, <<"i">>}

\* An HTTP status in decimal, as the template literal writes it.
Digit(d) == <<"0", "1", "2", "3", "4", "5", "6", "7", "8", "9">>[d + 1]
Digits(status) ==
    << Digit(status \div 100), Digit((status \div 10) % 10), Digit(status % 10) >>

\* String.prototype.includes on texts, which are sequences of fragments.
Includes(text, pattern) ==
    \E k \in 1..(Len(text) - Len(pattern) + 1) :
        SubSeq(text, k, k + Len(pattern) - 1) = pattern

\* The session API calls with the text each puts before the status
\* (openai.ts:401, :486, :527, :563, :613) and its generic message
\* (openai.ts:409, :498, :534, :570, :621).
ApiCalls ==
    {"getSessions", "createSession", "deleteSession", "getSessionMessages",
     "sendMessageToSession"}
FailedPrefix(op) ==
    CASE op = "getSessions" -> "Failed to fetch sessions: "
      [] op = "createSession" -> "Failed to create session: "
      [] op = "deleteSession" -> "Failed to delete session: "
      [] op = "getSessionMessages" -> "Failed to fetch messages: "
      [] OTHER -> "Failed to send message: "
GenericText(op) ==
    CASE op = "getSessions" -> <<"Failed to fetch sessions. Please try again later.">>
      [] op = "createSession" -> <<"Failed to create session. Please try again later.">>
      [] op = "deleteSession" -> <<"Failed to delete session. Please try again later.">>
      [] op = "getSessionMessages" -> <<"Failed to fetch messages. Please try again later.">>
      [] OTHER -> SendFailedText

\* The message of the Error caught by the catch block of a session API
\* call: the one thrown for !response.ok (openai.ts:612-614), or the
\* TypeError of a fetch that got no response (status 0).
ResponseMessage(op, status, statusText) ==
    IF status = 0 THEN <<"Failed to fetch">>
    ELSE <<FailedPrefix(op)>> \o Digits(status) \o <<" ">> \o statusText

\* openai.ts:621-631: the text of the caught error is searched for '401',
\* '429' and '500', in this order.
Classify(message, generic) ==
    IF Includes(message, <<"4", "0", "1">>) THEN AuthErrorText
    ELSE IF Includes(message, <<"4", "2", "9">>) THEN RateLimitText
    ELSE IF Includes(message, <<"5", "0", "0">>) THEN ServerErrorText
    ELSE generic

\* The message the catch block of sendMessageToSession throws for a status,
\* the response carrying no reason phrase.
ErrorText(status, generic) ==
    Classify(ResponseMessage("sendMessageToSession", status, <<>>), generic)

\* Ids the remote service gives its messages: never a clock value.
RemoteId(sid, k) == 0 - (sid * 100 + k)

\* What POST /sessions/{id}/messages appends to the session's log.
RemoteAppend(log, sid, text) ==
    log \o << Msg(RemoteId(sid, Len(log) + 1), "user", text),
              Msg(RemoteId(sid, Len(log) + 2), "assistant", ReplyText) >>

\* The list of messages as the service returns it.
Feed(log) == IF newestFirst THEN Reverse(log) ELSE log

\* -------------------------------------------------------------- requests

Call(op, sid, text, clSessions, clSessionId) ==
    [op |-> op, sid |-> sid, text |-> text,
     cl_sessions |-> clSessions, cl_sessionId |-> clSessionId, mid |-> 0,
     polls |-> 0, seen |-> <<>>, cancelled |-> FALSE]

\* The step taken last (history): its name, the session or thread it is
\* about and whether it went well; for the call of a select, the session
\* that was active before; for a step of sendMessageToAssistant, what ended
\* the retrieval (cause), the texts it handed to onMessageUpdate in order
\* (emits), the message of the Error it threw (error) and the content it
\* returned (content).
Event(ev, sid, ok) ==
    [ev |-> ev, sid |-> sid, ok |-> ok, was |-> NoSession,
     cause |-> "", emits |-> <<>>, error |-> <<>>, content |-> <<>>]


\* A request is answered with OkStatus or with a failure status.  The
\* service refuses a request without the API key (getHeaders then sends no
\* X-Api-Key) and a request for a session it does not have.
Outcomes == {OkStatus} \cup FailStatuses
Live(sid) == sid \in SessionIds /\ remoteSessions[sid] = "live"
Answers(outcome, sid) ==
    outcome = OkStatus => (configOk /\ (sid # NoSession => Live(sid)))

\* Date.now(): time does not go back.
Clock(t) == t \in {now + d : d \in ClockSteps} /\ t <= MaxClock

RECURSIVE Ascending(_)
Ascending(S) ==
    IF S = {} THEN <<>>
    ELSE LET m == CHOOSE x \in S : \A y \in S : x <= y
         IN <<m>> \o Ascending(S \ {m})

\* GET /sessions: the live sessions in the service's order.
RemoteList == Ascending({s \in SessionIds : remoteSessions[s] = "live"})

OldText == <<"o", "l", "d">>

\* ------------------------------------------------------------------- Init
\* The state when App has mounted and fetchData() waits for getCompanyInfo().
Init ==
    /\ messages = <<>>
    /\ input = <<>>
    /\ isLoading = FALSE
    /\ sessionId = NoSession
    /\ sessions = <<>>
    /\ initialLoading = TRUE
    /\ calls = << Call("getCompanyInfo", NoSession, <<>>, <<>>, NoSession) >>
    /\ \E pre \in BOOLEAN :
        /\ remoteSessions = [s \in SessionIds |->
                                IF pre /\ s = 1 THEN "live" ELSE "free"]
        /\ remoteMessages = [s \in SessionIds |->
                                IF pre /\ s = 1
                                THEN RemoteAppend(<<>>, 1, OldText) ELSE <<>>]
    /\ newestFirst \in BOOLEAN
    /\ configOk \in BOOLEAN
    /\ threadId = NoSession
    /\ remoteThreads = 0
    /\ assistantId = TRUE
    /\ now = 0
    /\ nOps = 0
    /\ lastEvent = Event("mount", NoSession, TRUE)

\* ------------------------------------------------------ mount: fetchData
\* App.tsx:73-94
FetchCompanyInfoDone(i, outcome) ==
    /\ UNCHANGED threadVars
    /\ calls[i].op = "getCompanyInfo"
    /\ Answers(outcome, NoSession)
    /\ IF outcome = OkStatus
       THEN /\ calls' = [calls EXCEPT ![i].op = "getSessions"]
            /\ UNCHANGED initialLoading
       ELSE /\ calls' = RemoveAt(calls, i)
            /\ initialLoading' = FALSE
    /\ lastEvent' = Event("companyInfo", NoSession, outcome = OkStatus)
    /\ UNCHANGED <<messages, input, isLoading, sessionId, sessions,
                   remoteSessions, remoteMessages, newestFirst, configOk,
                   now, nOps>>

FetchSessionsDone(i, outcome) ==
    /\ UNCHANGED threadVars
    /\ calls[i].op = "getSessions"
    /\ Answers(outcome, NoSession)
    /\ sessions' = IF outcome = OkStatus THEN RemoteList ELSE sessions
    /\ initialLoading' = FALSE
    /\ calls' = RemoveAt(calls, i)
    /\ lastEvent' = Event("fetchData", NoSession, outcome = OkStatus)
    /\ UNCHANGED <<messages, input, isLoading, sessionId,
                   remoteSessions, remoteMessages, newestFirst, configOk,
                   now, nOps>>

\* ------------------------------------------------------------ user input
\* App.tsx:433  onChange={(e) => setInput(e.target.value)}
SetInput(text) ==
    /\ UNCHANGED threadVars
    /\ ~initialLoading
    /\ text # input
    /\ input' = text
    /\ lastEvent' = Event("input", NoSession, TRUE)
    /\ UNCHANGED <<messages, isLoading, sessionId, sessions, initialLoading,
                   calls, remoteSessions, remoteMessages, newestFirst,
                   configOk, now, nOps>>

\* ------------------------------------------------------ handleSendMessage
SendRejectedNoTrim == input = <<>> \/ isLoading

\* The guard of App.tsx:118.
SendRejected == Trim(input) = <<>> \/ isLoading

OptimisticWithPlaceholder(newMessage) ==
    << newMessage, Msg(newMessage.id + 1, "assistant", <<>>) >>

OptimisticNothing(newMessage) == <<>>

\* What an accepted send adds to messages before it dispatches
\* (App.tsx:129-133): the user message, and no placeholder.
Optimistic(newMessage) == << newMessage >>

LoadingKept == isLoading

\* The value the finally blocks give isLoading (App.tsx:199, 222, 256).
LoadingAfterFinally == FALSE

\* App.tsx:116-152: up to the call of sendMessageToSession.  The reads of
\* Date.now() in one run of the handler (:122, :140) give the same millisecond.
handleSendMessage ==
    /\ UNCHANGED threadVars
    /\ ~initialLoading
    /\ nOps < MaxOps
    /\ nOps' = nOps + 1
    /\ IF SendRejected
       THEN /\ lastEvent' = Event("send.rejected", sessionId, FALSE)
            /\ UNCHANGED <<messages, input, isLoading, calls, now>>
       ELSE \E t \in 0..MaxClock : Clock(t) /\
            LET newMessage == Msg(t, "user", Trim(input)) IN
            IF sessionId = NoSession
            THEN /\ messages' = messages \o Optimistic(newMessage) \o
                        << Msg(t + 1, "assistant", NoSessionText) >>
                 /\ input' = <<>>
                 /\ isLoading' = FALSE
                 /\ now' = t
                 /\ lastEvent' = Event("send.nosession", NoSession, FALSE)
                 /\ UNCHANGED calls
            ELSE /\ Len(calls) < MaxInFlight
                 /\ messages' = messages \o Optimistic(newMessage)
                 /\ input' = <<>>
                 /\ isLoading' = TRUE
                 /\ now' = t
                 /\ calls' = Append(calls,
                        Call("send", sessionId, Join(newMessage.content),
                             <<>>, NoSession))
                 /\ lastEvent' = Event("send.dispatch", sessionId, TRUE)
    /\ UNCHANGED <<sessionId, sessions, initialLoading, remoteSessions,
                   remoteMessages, newestFirst, configOk>>

FinalizeMerged(local, updatedMessages) == local \o updatedMessages

\* App.tsx:153-154  setMessages(updatedMessages): the list the service
\* returned takes the place of the local one.
Finalize(local, updatedMessages) == updatedMessages

\* App.tsx:153-179 with sendMessageToSession (openai.ts:598-635): the
\* service's answer and the .then / .catch of the send.
SendDone(i, outcome) ==
    /\ UNCHANGED threadVars
    /\ calls[i].op = "send"
    /\ Answers(outcome, calls[i].sid)
    /\ LET sid == calls[i].sid IN
       IF outcome = OkStatus
       THEN LET log == RemoteAppend(remoteMessages[sid], sid, calls[i].text) IN
            /\ remoteMessages' = [remoteMessages EXCEPT ![sid] = log]
            /\ messages' = Finalize(messages, Feed(log))
            /\ UNCHANGED now
       ELSE \E t \in 0..MaxClock : Clock(t) /\
            /\ messages' = Append(messages,
                   Msg(t + 1, "assistant", ErrorText(outcome, SendFailedText)))
            /\ now' = t
            /\ UNCHANGED remoteMessages
    /\ isLoading' = FALSE
    /\ calls' = RemoveAt(calls, i)
    /\ lastEvent' = Event("send.settled", calls[i].sid, outcome = OkStatus)
    /\ UNCHANGED <<input, sessionId, sessions, initialLoading, remoteSessions,
                   newestFirst, configOk, nOps>>

\* ---------------------------------------------------- handleSelectSession
\* App.tsx:189-194: up to the await of getSessionMessages.  The event is
\* "select.again" when the call repeats, with nothing in flight, the select
\* of the same session that settled in the step before.
handleSelectSession(id) ==
    /\ UNCHANGED threadVars
    /\ ~initialLoading
    /\ nOps < MaxOps
    /\ Len(calls) < MaxInFlight
    /\ isLoading' = TRUE
    /\ sessionId' = id
    /\ calls' = Append(calls, Call("select", id, <<>>, <<>>, NoSession))
    /\ nOps' = nOps + 1
    /\ lastEvent' = [ Event(IF /\ lastEvent.ev = "select.settled"
                                /\ lastEvent.sid = id
                                /\ sessionId = id
                                /\ calls = <<>>
                             THEN "select.again" ELSE "select", id, TRUE)
                       EXCEPT !.was = sessionId ]
    /\ UNCHANGED <<messages, input, sessions, initialLoading, remoteSessions,
                   remoteMessages, newestFirst, configOk, now>>

SelectedMessagesCleared(outcome, sid) ==
    IF outcome = OkStatus THEN <<>> ELSE messages

\* App.tsx:194-197: the messages after the await of getSessionMessages: the
\* list the service returned, or, when the call threw, the messages as they
\* were (the catch only logs).
SelectedMessages(outcome, sid) ==
    IF outcome = OkStatus THEN Feed(remoteMessages[sid]) ELSE messages

\* App.tsx:194-200 with getSessionMessages (openai.ts:556-585).  When the
\* select was called by handleDeleteSession (App.tsx:246) the finally of the
\* delete follows and clears isLoading a second time.
SelectDone(i, outcome) ==
    /\ UNCHANGED threadVars
    /\ calls[i].op = "select"
    /\ Answers(outcome, calls[i].sid)
    /\ messages' = SelectedMessages(outcome, calls[i].sid)
    /\ isLoading' = LoadingAfterFinally
    /\ calls' = RemoveAt(calls, i)
    /\ lastEvent' = Event("select.settled", calls[i].sid, outcome = OkStatus)
    /\ UNCHANGED <<input, sessionId, sessions, initialLoading, remoteSessions,
                   remoteMessages, newestFirst, configOk, now, nOps>>

\* ------------------------------------------------- handleCreateNewSession
\* App.tsx:208-213 with createSession (openai.ts:470-483): without the keys
\* createSession throws before it fetches, and the catch and the finally of
\* the handler run at once.
handleCreateNewSession ==
    /\ UNCHANGED threadVars
    /\ ~initialLoading
    /\ nOps < MaxOps
    /\ nOps' = nOps + 1
    /\ IF configOk
       THEN /\ Len(calls) < MaxInFlight
            /\ isLoading' = TRUE
            /\ calls' = Append(calls,
                   Call("create", NoSession, <<>>, sessions, NoSession))
            /\ lastEvent' = Event("create", NoSession, TRUE)
       ELSE /\ isLoading' = LoadingAfterFinally
            /\ lastEvent' = Event("create.settled", NoSession, FALSE)
            /\ UNCHANGED calls
    /\ UNCHANGED <<messages, input, sessionId, sessions, initialLoading,
                   remoteSessions, remoteMessages, newestFirst, configOk, now>>

\* The id the service gives the next session.
FreeIds == {s \in SessionIds : remoteSessions[s] = "free"}
NewId == CHOOSE s \in FreeIds : \A r \in FreeIds : s <= r

\* App.tsx:213-223 with createSession (openai.ts:485-510).
CreateDone(i, outcome) ==
    /\ UNCHANGED threadVars
    /\ calls[i].op = "create"
    /\ Answers(outcome, NoSession)
    /\ IF outcome = OkStatus
       THEN /\ FreeIds # {}
            /\ remoteSessions' = [remoteSessions EXCEPT ![NewId] = "live"]
            /\ sessionId' = NewId
            /\ messages' = <<>>
            /\ sessions' = <<NewId>> \o calls[i].cl_sessions
            /\ lastEvent' = Event("create.settled", NewId, TRUE)
       ELSE /\ lastEvent' = Event("create.settled", NoSession, FALSE)
            /\ UNCHANGED <<remoteSessions, sessionId, messages, sessions>>
    /\ isLoading' = LoadingAfterFinally
    /\ calls' = RemoveAt(calls, i)
    /\ UNCHANGED <<input, initialLoading, remoteMessages, newestFirst,
                   configOk, now, nOps>>

\* ---------------------------------------------------- handleDeleteSession
\* App.tsx:233-237: up to the await of deleteSession.
handleDeleteSession(sessionIdToDelete) ==
    /\ UNCHANGED threadVars
    /\ ~initialLoading
    /\ nOps < MaxOps
    /\ Len(calls) < MaxInFlight
    /\ isLoading' = TRUE
    /\ calls' = Append(calls,
           Call("delete", sessionIdToDelete, <<>>, sessions, sessionId))
    /\ nOps' = nOps + 1
    /\ lastEvent' = Event("delete", sessionIdToDelete, TRUE)
    /\ UNCHANGED <<messages, input, sessionId, sessions, initialLoading,
                   remoteSessions, remoteMessages, newestFirst, configOk, now>>

\* App.tsx:237-257 with deleteSession (openai.ts:519-548).  sessions and
\* sessionId are the values of the render in which the handler was called.
DeleteDone(i, outcome) ==
    /\ UNCHANGED threadVars
    /\ calls[i].op = "delete"
    /\ Answers(outcome, calls[i].sid)
    /\ LET c == calls[i]
           nextSession == Find(c.cl_sessions, c.sid)
       IN
       IF outcome # OkStatus
       THEN /\ isLoading' = LoadingAfterFinally
            /\ calls' = RemoveAt(calls, i)
            /\ lastEvent' = Event("delete.settled", c.sid, FALSE)
            /\ UNCHANGED <<sessions, sessionId, messages, remoteSessions>>
       ELSE /\ remoteSessions' = [remoteSessions EXCEPT ![c.sid] = "deleted"]
            /\ sessions' = Filter(c.cl_sessions, c.sid)
            /\ IF c.cl_sessionId = c.sid /\ Len(c.cl_sessions) > 1
                  /\ nextSession # NoSession
               THEN \* await handleSelectSession(nextSession.id)
                    /\ isLoading' = TRUE
                    /\ sessionId' = nextSession
                    /\ calls' = [calls EXCEPT ![i] =
                           Call("select", nextSession, <<>>, <<>>, NoSession)]
                    /\ lastEvent' = Event("delete.select", c.sid, TRUE)
                    /\ UNCHANGED messages
               ELSE /\ IF c.cl_sessionId = c.sid /\ Len(c.cl_sessions) <= 1
                       THEN sessionId' = NoSession /\ messages' = <<>>
                       ELSE UNCHANGED <<sessionId, messages>>
                    /\ isLoading' = LoadingAfterFinally
                    /\ calls' = RemoveAt(calls, i)
                    /\ lastEvent' = Event("delete.settled", c.sid, TRUE)
    /\ UNCHANGED <<input, initialLoading, remoteMessages, newestFirst,
                   configOk, now, nOps>>

\* ================================================================ thread
\* The thread client: src/unnamed/part_004 on sendMessageToAssistant
\* (openai.ts:62-162).

\* The state when App has mounted and initThread() waits for createThread().
InitThread ==
    /\ messages = <<>>
    /\ input = <<>>
    /\ isLoading = FALSE
    /\ sessionId = NoSession
    /\ sessions = <<>>
    /\ initialLoading = FALSE
    /\ calls = << Call("initThread", NoSession, <<>>, <<>>, NoSession) >>
    /\ remoteSessions = [s \in SessionIds |-> "free"]
    /\ remoteMessages = [s \in SessionIds |-> <<>>]
    /\ newestFirst = TRUE
    /\ configOk = TRUE
    /\ threadId = NoSession
    /\ remoteThreads = 0
    /\ assistantId \in BOOLEAN
    /\ now = 0
    /\ nOps = 0
    /\ lastEvent = Event("mount", NoSession, TRUE)

\* part_004:68-76 with createThread (openai.ts:34-59)
InitThreadDone(i, outcome) ==
    /\ calls[i].op = "initThread"
    /\ IF outcome = OkStatus
       THEN /\ remoteThreads' = remoteThreads + 1
            /\ threadId' = remoteThreads + 1
       ELSE UNCHANGED <<threadId, remoteThreads>>
    /\ calls' = RemoveAt(calls, i)
    /\ lastEvent' = Event("initThread", NoSession, outcome = OkStatus)
    /\ UNCHANGED <<messages, input, isLoading, assistantId, now, nOps>>
    /\ UNCHANGED sessionVars

\* onMessageUpdate of part_004:147-157: the content of every message with
\* the placeholder's id is replaced.
UpdateMessage(msgs, mid, text) ==
    [k \in 1..Len(msgs) |->
        IF msgs[k].id = mid THEN [msgs[k] EXCEPT !.content = <<text>>]
        ELSE msgs[k]]

\* part_004:105-146 with openai.ts:66-71: up to the first await of
\* sendMessageToAssistant.  The reads of Date.now() in one run of the
\* handler (part_004:110, :123, :169) give the same millisecond.
handleSendMessageT ==
    /\ nOps < MaxSends
    /\ nOps' = nOps + 1
    /\ IF Trim(input) = <<>>
       THEN /\ lastEvent' = Event("send.rejected", threadId, FALSE)
            /\ UNCHANGED <<messages, input, isLoading, calls, now>>
       ELSE \E t \in 0..MaxClock :
            /\ Clock(t)
            /\ LET newMessage == Msg(t, "user", input)
                   assistantMessageId == t + 1
                   assistantMessage == Msg(assistantMessageId, "assistant", <<>>)
               IN
               IF ~assistantId
               THEN /\ messages' = messages \o
                           << newMessage, assistantMessage,
                              Msg(t + 1, "assistant", SorryText) >>
                    /\ isLoading' = FALSE
                    /\ lastEvent' = Event("send.settled", threadId, FALSE)
                    /\ UNCHANGED calls
               ELSE /\ Len(calls) < MaxInFlight
                    /\ messages' = messages \o << newMessage, assistantMessage >>
                    /\ isLoading' = TRUE
                    /\ calls' = Append(calls,
                          [ Call(IF threadId = NoSession
                                 THEN "createThread" ELSE "addMessage",
                                 threadId, <<>>, <<>>, threadId)
                            EXCEPT !.mid = assistantMessageId ])
                    /\ lastEvent' = Event("send.dispatch", threadId, TRUE)
            /\ now' = t
            /\ input' = <<>>
    /\ UNCHANGED threadVars
    /\ UNCHANGED sessionVars

\* part_004:164-179 (the same in part_003:86-100): the catch and the
\* finally of handleSendMessage, for an Error with the message error thrown
\* by sendMessageToAssistant.
SendThrowsT(i, cause, error) ==
    \E t \in 0..MaxClock :
        /\ Clock(t)
        /\ messages' = Append(messages, Msg(t + 1, "assistant", SorryText))
        /\ now' = t
        /\ isLoading' = FALSE
        /\ calls' = RemoveAt(calls, i)
        /\ lastEvent' = [ Event("send.settled", calls[i].sid, FALSE)
                           EXCEPT !.cause = cause, !.error = error ]
        /\ UNCHANGED <<input, nOps>>
        /\ UNCHANGED sessionVars

\* A request of the assistants service fails: openai.ts:158-161 throws the
\* library's error on.
SendFailsT(i) == SendThrowsT(i, "", <<>>)

SendReturnsTStaysPending(i, cause) ==
    /\ isLoading' = FALSE
    /\ lastEvent' = [ Event("send.settled", calls[i].sid, TRUE)
                       EXCEPT !.cause = cause ]
    /\ UNCHANGED <<messages, input, now, nOps, calls, threadId>>
    /\ UNCHANGED sessionVars

\* part_004:158-163 and 176-179: the .then and the finally, for the
\* response of openai.ts:113-120, whose content is what was accumulated.
SendReturnsT(i, cause) ==
    /\ threadId' = IF calls[i].sid # NoSession
                      /\ (calls[i].cl_sessionId = NoSession
                          \/ calls[i].cl_sessionId # calls[i].sid)
                   THEN calls[i].sid ELSE threadId
    /\ isLoading' = FALSE
    /\ calls' = RemoveAt(calls, i)
    /\ lastEvent' = [ Event("send.settled", calls[i].sid, TRUE)
                       EXCEPT !.cause = cause, !.content = calls[i].text ]
    /\ UNCHANGED <<messages, input, now, nOps>>
    /\ UNCHANGED sessionVars

\* openai.ts:69-71  threadId = await createThread()
CreateThreadDone(i, outcome) ==
    /\ calls[i].op = "createThread"
    /\ IF outcome = OkStatus
       THEN /\ remoteThreads' = remoteThreads + 1
            /\ calls' = [calls EXCEPT ![i].op = "addMessage",
                                      ![i].sid = remoteThreads + 1]
            /\ lastEvent' = Event("createThread", remoteThreads + 1, TRUE)
            /\ UNCHANGED <<messages, input, isLoading, threadId, now, nOps>>
            /\ UNCHANGED sessionVars
       ELSE SendFailsT(i) /\ UNCHANGED <<threadId, remoteThreads>>
    /\ UNCHANGED assistantId

\* openai.ts:74-77  await openai.beta.threads.messages.create(...)
AddMessageDone(i, outcome) ==
    /\ calls[i].op = "addMessage"
    /\ IF outcome = OkStatus
       THEN /\ calls' = [calls EXCEPT ![i].op = "createRun"]
            /\ lastEvent' = Event("addMessage", calls[i].sid, TRUE)
            /\ UNCHANGED <<messages, input, isLoading, now, nOps>>
            /\ UNCHANGED sessionVars
       ELSE SendFailsT(i)
    /\ UNCHANGED threadVars

UseStreamAlways(c) == TRUE

\* openai.ts:84  if (onMessageUpdate): the call has a callback exactly when
\* it has a placeholder to update.
UseStream(c) == c.mid # 0

\* openai.ts:80-84  const run = await openai.beta.threads.runs.create(...)
\* The service runs only an assistant it knows (part_003:69 sends
\* 'placeholder-assistant-id' when the id is not configured).
CreateRunDone(i, outcome) ==
    /\ calls[i].op = "createRun"
    /\ outcome = OkStatus => assistantId
    /\ IF outcome = OkStatus
       THEN /\ calls' = [calls EXCEPT ![i].op =
                           IF UseStream(calls[i]) THEN "openStream"
                           ELSE "retrieveRun"]
            /\ lastEvent' = Event("createRun", calls[i].sid, TRUE)
            /\ UNCHANGED <<messages, input, isLoading, now, nOps>>
            /\ UNCHANGED sessionVars
       ELSE SendFailsT(i)
    /\ UNCHANGED threadVars

\* What is thrown inside the try of openai.ts:88-104, and caught at :105.
Thrown == {"Error", "other"}

\* openai.ts:105-111 and what follows: an Error is shown in the placeholder
\* ("Error: " and its message, the text) and thrown on to the handler;
\* anything else is dropped, and the function returns what it has
\* accumulated.  emitted are the texts handed to onMessageUpdate in the try
\* block before the throw.
StreamCatch(i, thrown, text, cause, emitted) ==
    IF thrown = "Error"
    THEN \E t \in 0..MaxClock :
            /\ Clock(t)
            /\ messages' = Append(UpdateMessage(messages, calls[i].mid, text),
                                  Msg(t + 1, "assistant", SorryText))
            /\ now' = t
            /\ isLoading' = FALSE
            /\ calls' = RemoveAt(calls, i)
            /\ lastEvent' = [ Event("send.settled", calls[i].sid, FALSE)
                               EXCEPT !.cause = cause,
                                      !.emits = Append(emitted, text),
                                      !.error = Tail(text) ]
            /\ UNCHANGED <<input, nOps>>
            /\ UNCHANGED sessionVars
            /\ UNCHANGED threadVars
    ELSE SendReturnsT(i, cause) /\ UNCHANGED <<remoteThreads, assistantId>>

\* openai.ts:89  const stream = await openai.beta.threads.runs.stream(...)
OpenStreamDone(i, outcome) ==
    /\ calls[i].op = "openStream"
    /\ IF outcome = OkStatus
       THEN /\ calls' = [calls EXCEPT ![i].op = "stream"]
            /\ lastEvent' = Event("openStream", calls[i].sid, TRUE)
            /\ UNCHANGED <<messages, input, isLoading, now, nOps>>
            /\ UNCHANGED sessionVars
            /\ UNCHANGED threadVars
       ELSE \E thrown \in Thrown :
                StreamCatch(i, thrown, StreamThrownText, "open", <<>>)

AccumulateLast(fullContent, delta) == delta

\* openai.ts:95  fullContent += contentDelta.text.value
Accumulate(fullContent, delta) == fullContent \o delta

\* openai.ts:91-97: a thread.message.delta event with a text delta.  seen
\* records what onMessageUpdate has been given (history).
StreamDelta(i, delta) ==
    /\ calls[i].op = "stream"
    /\ Len(calls[i].seen) < MaxDeltas
    /\ LET fullContent == Accumulate(calls[i].text, delta) IN
       /\ calls' = [calls EXCEPT ![i].text = fullContent,
                                 ![i].seen = Append(@, fullContent)]
       /\ messages' = UpdateMessage(messages, calls[i].mid, fullContent)
       /\ lastEvent' = [ Event("delta", calls[i].sid, TRUE)
                          EXCEPT !.emits = << fullContent >> ]
    /\ UNCHANGED <<input, isLoading, now, nOps>>
    /\ UNCHANGED sessionVars
    /\ UNCHANGED threadVars

\* openai.ts:92-98: an event that is neither a message delta with a text
\* nor an error passes both tests of the loop and does nothing.
StreamOtherEvent(i) ==
    /\ calls[i].op = "stream"
    /\ lastEvent' = Event("stream.event", calls[i].sid, TRUE)
    /\ UNCHANGED <<messages, input, isLoading, calls, now, nOps>>
    /\ UNCHANGED sessionVars
    /\ UNCHANGED threadVars

\* openai.ts:98-103: an error event; onMessageUpdate is given the error text
\* at :101, and the Error thrown at :102 is caught at :105.
StreamErrorEvent(i) ==
    /\ calls[i].op = "stream"
    /\ StreamCatch(i, "Error", StreamErrorText, "event", <<StreamErrorText>>)

\* The stream's iterator throws (openai.ts:91, caught at :105).
StreamThrows(i, thrown) ==
    /\ calls[i].op = "stream"
    /\ StreamCatch(i, thrown, StreamThrownText, "stream", <<>>)

\* The stream ends: openai.ts:113-120.
StreamEnd(i) ==
    /\ calls[i].op = "stream"
    /\ SendReturnsT(i, "")
    /\ UNCHANGED <<remoteThreads, assistantId>>

\* ================================================================ polling
\* The polling client: src/unnamed/part_003, which calls
\* sendMessageToAssistant without a callback (openai.ts:121-157).

RunStatuses ==
    {"queued", "in_progress", "completed", "failed", "cancelled", "expired"}

TerminalFailureNoExpired(status) == status \in {"failed", "cancelled"}

\* openai.ts:128
TerminalFailure(status) == status \in {"failed", "cancelled", "expired"}

\* openai.ts:129  `Run ended with status: ${runStatus.status}`
RunEndedText(status) == <<"Run ended with status: ", status>>

\* The state when App has mounted and initThread() waits for createThread().
InitPoll ==
    /\ messages = <<>>
    /\ input = <<>>
    /\ isLoading = FALSE
    /\ sessionId = NoSession
    /\ sessions = <<>>
    /\ initialLoading = FALSE
    /\ calls = << Call("initThread", NoSession, <<>>, <<>>, NoSession) >>
    /\ remoteSessions = [s \in SessionIds |-> "free"]
    /\ remoteMessages = [s \in SessionIds |-> <<>>]
    /\ newestFirst \in BOOLEAN
    /\ configOk = TRUE
    /\ threadId = NoSession
    /\ remoteThreads = 0
    /\ assistantId \in BOOLEAN
    /\ now = 0
    /\ nOps = 0
    /\ lastEvent = Event("mount", NoSession, TRUE)

\* part_003:50-71 with openai.ts:66-71: up to the first await of
\* sendMessageToAssistant.
handleSendMessageP ==
    /\ nOps < MaxPollSends
    /\ nOps' = nOps + 1
    /\ IF Trim(input) = <<>>
       THEN /\ lastEvent' = Event("send.rejected", threadId, FALSE)
            /\ UNCHANGED <<messages, input, isLoading, calls, now>>
       ELSE \E t \in 0..MaxClock :
            /\ Clock(t)
            /\ Len(calls) < MaxInFlight
            /\ messages' = Append(messages, Msg(t, "user", input))
            /\ input' = <<>>
            /\ isLoading' = TRUE
            /\ now' = t
            /\ calls' = Append(calls,
                   Call(IF threadId = NoSession
                        THEN "createThread" ELSE "addMessage",
                        threadId, input, <<>>, threadId))
            /\ lastEvent' = Event("send.dispatch", threadId, TRUE)
    /\ UNCHANGED threadVars
    /\ UNCHANGED sessionVars

\* openai.ts:124-135: the answer to runs.retrieve.  The one second wait of
\* :133 is part of the step that issues the next retrieve.
RetrieveRunDone(i, outcome, status) ==
    /\ calls[i].op = "retrieveRun"
    /\ IF outcome # OkStatus
       THEN SendFailsT(i)
       ELSE IF status = "completed"
       THEN /\ calls' = [calls EXCEPT ![i].op = "listMessages"]
            /\ lastEvent' = [ Event("retrieveRun", calls[i].sid, TRUE)
                               EXCEPT !.cause = status ]
            /\ UNCHANGED <<messages, input, isLoading, now, nOps>>
            /\ UNCHANGED sessionVars
       ELSE IF TerminalFailure(status)
       THEN SendThrowsT(i, status, RunEndedText(status))
       ELSE /\ calls[i].polls < MaxPolls
            /\ calls' = [calls EXCEPT ![i].polls = @ + 1]
            /\ lastEvent' = [ Event("retrieveRun", calls[i].sid, TRUE)
                               EXCEPT !.cause = status ]
            /\ UNCHANGED <<messages, input, isLoading, now, nOps>>
            /\ UNCHANGED sessionVars
    /\ UNCHANGED threadVars

\* openai.ts:139  messages.data[0]: the first message the service lists, the
\* assistant's reply when it lists the newest first and the message that
\* opened the thread otherwise (every user text of the model is the same).
LatestMessage(c) == IF newestFirst THEN ReplyText ELSE c.text

\* openai.ts:138-156 with part_003:73-85 and 98-100: the answer to
\* messages.list, the return of sendMessageToAssistant and the rest of the
\* handler.
ListMessagesDone(i, outcome) ==
    /\ calls[i].op = "listMessages"
    /\ IF outcome # OkStatus
       THEN SendFailsT(i) /\ UNCHANGED threadVars
       ELSE \E t \in 0..MaxClock :
            /\ Clock(t)
            /\ threadId' = IF calls[i].sid # NoSession
                               /\ (calls[i].cl_sessionId = NoSession
                                   \/ calls[i].cl_sessionId # calls[i].sid)
                            THEN calls[i].sid ELSE threadId
            /\ messages' = Append(messages,
                   Msg(t + 1, "assistant", LatestMessage(calls[i])))
            /\ now' = t
            /\ isLoading' = FALSE
            /\ calls' = RemoveAt(calls, i)
            /\ lastEvent' = Event("send.settled", calls[i].sid, TRUE)
            /\ UNCHANGED <<input, nOps, remoteThreads, assistantId>>
            /\ UNCHANGED sessionVars

SettlePoll(i, outcome) ==
    \/ InitThreadDone(i, outcome)
    \/ CreateThreadDone(i, outcome)
    \/ AddMessageDone(i, outcome)
    \/ CreateRunDone(i, outcome)
    \/ ListMessagesDone(i, outcome)

NextPoll ==
    \/ \E text \in Inputs : SetInput(text)
    \/ handleSendMessageP
    \/ \E i \in 1..Len(calls), outcome \in Outcomes : SettlePoll(i, outcome)
    \/ \E i \in 1..Len(calls), outcome \in Outcomes, status \in RunStatuses :
          RetrieveRunDone(i, outcome, status)

SpecPoll == InitPoll /\ [][NextPoll]_vars

\* The caller of a send gives it up (a deadline around the promise that
\* sendMessageToAssistant returned).  The function takes the request and
\* the callback (openai.ts:62-65) and nothing that carries the signal, and
\* the handler keeps no handle of the send: the call goes on as it was.
\* cancelled records the fact (history).
Cancel(i) ==
    /\ calls[i].op # "initThread"
    /\ ~calls[i].cancelled
    /\ calls' = [calls EXCEPT ![i].cancelled = TRUE]
    /\ lastEvent' = Event("cancel", calls[i].sid, TRUE)
    /\ UNCHANGED <<messages, input, isLoading, now, nOps>>
    /\ UNCHANGED sessionVars
    /\ UNCHANGED threadVars

NextCancel ==
    \/ NextPoll
    \/ \E i \in 1..Len(calls) : Cancel(i)

SpecCancel == InitPoll /\ [][NextCancel]_vars

\* ---------------------------------------------------- error classification
\* The statuses and reason phrases of the responses that are not ok; 0 is
\* a fetch that got no response.
Statuses == {0, 400, 401, 403, 404, 429, 500, 502, 503}
StatusTexts == {<<>>, <<"N", "o">>, <<"5", "0", "0">>}

InitClassify ==
    /\ messages = <<>>
    /\ input = <<>>
    /\ isLoading = FALSE
    /\ sessionId = NoSession
    /\ sessions = <<>>
    /\ initialLoading = FALSE
    /\ calls = <<>>
    /\ remoteSessions = [s \in SessionIds |-> "free"]
    /\ remoteMessages = [s \in SessionIds |-> <<>>]
    /\ newestFirst = TRUE
    /\ configOk = TRUE
    /\ threadId = NoSession
    /\ remoteThreads = 0
    /\ assistantId = TRUE
    /\ now = 0
    /\ nOps = 0
    /\ lastEvent = Event("mount", NoSession, TRUE)

\* A session API call gets a response that is not ok, or none, and its
\* catch block throws (openai.ts:612-634 and the same in the other four).
\* The event records the call (cause), the status (was), the reason phrase
\* (content) and the message thrown (error).
ApiCallFails(op, status, statusText) ==
    /\ status = 0 => statusText = <<>>
    /\ lastEvent' = [ Event("api.failed", NoSession, FALSE)
                       EXCEPT !.cause = op, !.was = status,
                              !.content = statusText,
                              !.error = Classify(
                                  ResponseMessage(op, status, statusText),
                                  GenericText(op)) ]
    /\ UNCHANGED <<messages, input, isLoading, calls, now, nOps>>
    /\ UNCHANGED sessionVars
    /\ UNCHANGED threadVars

NextClassify ==
    \E op \in ApiCalls, status \in Statuses, statusText \in StatusTexts :
        ApiCallFails(op, status, statusText)

SpecClassify == InitClassify /\ [][NextClassify]_vars

SettleThread(i, outcome) ==
    \/ InitThreadDone(i, outcome)
    \/ CreateThreadDone(i, outcome)
    \/ AddMessageDone(i, outcome)
    \/ CreateRunDone(i, outcome)
    \/ OpenStreamDone(i, outcome)

NextThread ==
    \/ \E text \in Inputs : SetInput(text)
    \/ handleSendMessageT
    \/ \E i \in 1..Len(calls), outcome \in Outcomes : SettleThread(i, outcome)
    \/ \E i \in 1..Len(calls), delta \in Deltas : StreamDelta(i, delta)
    \/ \E i \in 1..Len(calls) : StreamOtherEvent(i)
    \/ \E i \in 1..Len(calls) : StreamErrorEvent(i)
    \/ \E i \in 1..Len(calls), thrown \in Thrown : StreamThrows(i, thrown)
    \/ \E i \in 1..Len(calls) : StreamEnd(i)

SpecThread == InitThread /\ [][NextThread]_vars

\* The thread client after the user has pressed Enter on an empty input
\* MaxSends - MaxStreamSends times (part_004:106 returns at once), which
\* leaves MaxStreamSends sends to call.
InitStream ==
    /\ messages = <<>>
    /\ input = <<>>
    /\ isLoading = FALSE
    /\ sessionId = NoSession
    /\ sessions = <<>>
    /\ initialLoading = FALSE
    /\ calls = << Call("initThread", NoSession, <<>>, <<>>, NoSession) >>
    /\ remoteSessions = [s \in SessionIds |-> "free"]
    /\ remoteMessages = [s \in SessionIds |-> <<>>]
    /\ newestFirst = TRUE
    /\ configOk = TRUE
    /\ threadId = NoSession
    /\ remoteThreads = 0
    /\ assistantId \in BOOLEAN
    /\ now = 0
    /\ nOps = MaxSends - MaxStreamSends
    /\ lastEvent = Event("send.rejected", NoSession, FALSE)

SpecStream == InitStream /\ [][NextThread]_vars

\* The for-await loop of openai.ts:91 is left: the stream ends, reports an
\* error or throws.
StreamCloses(i) ==
    \/ StreamEnd(i)
    \/ StreamErrorEvent(i)
    \/ \E thrown \in Thrown : StreamThrows(i, thrown)

\* ------------------------------------------------------------------- Next
Settle(i, outcome) ==
    \/ FetchCompanyInfoDone(i, outcome)
    \/ FetchSessionsDone(i, outcome)
    \/ SendDone(i, outcome)
    \/ SelectDone(i, outcome)
    \/ CreateDone(i, outcome)
    \/ DeleteDone(i, outcome)

Known == {sessions[k] : k \in 1..Len(sessions)}

Next ==
    \/ \E text \in Inputs : SetInput(text)
    \/ handleSendMessage
    \/ \E id \in Known : handleSelectSession(id)
    \/ handleCreateNewSession
    \/ \E id \in Known : handleDeleteSession(id)
    \/ \E i \in 1..Len(calls), outcome \in Outcomes : Settle(i, outcome)

Spec == Init /\ [][Next]_vars

TypeOK ==
    /\ isLoading \in BOOLEAN
    /\ sessionId \in SessionIds \cup {NoSession}
    /\ Len(calls) <= MaxInFlight
    /\ now \in 0..MaxClock
    /\ nOps \in 0..MaxOps

\* The session client against a service that lists messages oldest first.
InitOldestFirst == Init /\ ~newestFirst

SpecOldestFirst == InitOldestFirst /\ [][Next]_vars

\* ------------------------------------------------------------ rendering
\* String.startsWith('Error:') and String.includes('error') on the texts of
\* the model, which are sequences of fragments: the fragments that begin
\* with 'Error:' and those that hold 'error' (lower case).
StartsWithError(text) ==
    /\ text # <<>>
    /\ text[1] \in {NoSessionText[1], "Error: "}

IncludesError(text) ==
    \E k \in 1..Len(text) :
        text[k] \in {AuthErrorText[1], ServerErrorText[1], SorryText[1],
                     "Streaming error: "}

\* App.tsx:385-392: the class of a message's bubble is 'error-message' for
\* an assistant message whose joined content starts with 'Error:' or
\* includes 'error'.
ErrorStyled(message) ==
    /\ message.role # "user"
    /\ (StartsWithError(Join(message.content))
        \/ IncludesError(Join(message.content)))

\* ================================================================ claims
Last(seq) == seq[Len(seq)]

\* Indices of the sends in flight (session client).
SendsInFlight == {i \in 1..Len(calls) : calls[i].op = "send"}

\* Indices of the sends in flight (thread client): every await of
\* sendMessageToAssistant.
SendsInFlightT == {i \in 1..Len(calls) : calls[i].mid # 0}

\* Empty assistant messages: the placeholders of an answer to come.
Placeholders(msgs) ==
    {k \in 1..Len(msgs) : msgs[k].role = "assistant" /\ msgs[k].content = << <<>> >>}

SendSettled == lastEvent.ev \in {"send.settled", "send.nosession"}

EndsWithUserThenAssistant(msgs) ==
    /\ Len(msgs) >= 2
    /\ msgs[Len(msgs) - 1].role = "user"
    /\ msgs[Len(msgs)].role = "assistant"

\* C1: once a send has settled, isLoading is false and the last two
\* messages are a user message followed by an assistant message.
C1_SettledSendIsPaired ==
    SendSettled => (~isLoading /\ EndsWithUserThenAssistant(messages))

\* C2: at most one send is in flight against the same session.
C2_OneSendPerSession ==
    \A s \in SessionIds :
        Cardinality({i \in SendsInFlight : calls[i].sid = s}) <= 1

\* C3: the result of a send started on session A that settles while another
\* session B is active changes neither messages nor isLoading.
C3_StaleResultGuard ==
    [][ (lastEvent'.ev = "send.settled" /\ lastEvent'.sid # sessionId)
            => (messages' = messages /\ isLoading' = isLoading) ]_vars

\* C4: isLoading is true as long as a send is in flight.
C4_BusyWhileSending == (SendsInFlight # {}) => isLoading

\* A step of handleSendMessage (either client).
SendCalled ==
    /\ nOps' = nOps + 1
    /\ lastEvent'.ev \in {"send.rejected", "send.dispatch", "send.nosession",
                          "send.settled"}

\* C5: a send called while an earlier send has not settled is a no-op: no
\* message is added, nothing is dispatched.
C5_SecondSendIsNoOp ==
    [][ (SendCalled /\ SendsInFlightT # {})
            => (messages' = messages /\ calls' = calls) ]_vars

\* C6: a send with an empty or whitespace-only text changes nothing and
\* issues no request (no await is added to calls).
C6_EmptySendIsNoOp ==
    [][ (SendCalled /\ Trim(input) = <<>>)
            => UNCHANGED <<messages, isLoading, sessionId, sessions, calls,
                           input>> ]_vars

C6_Witness ==
    /\ lastEvent.ev = "send.rejected"
    /\ input = <<" ">>
    /\ ~isLoading
    /\ sessionId # NoSession

FailedSendSettled == SendSettled /\ ~lastEvent.ok

\* C7: when a send has failed, the messages end with the user message and
\* the error message after it, and isLoading is false.
C7_FailedSendIsPaired ==
    FailedSendSettled =>
        /\ ~isLoading
        /\ EndsWithUserThenAssistant(messages)
        /\ Last(messages).id > 0

C9_OnePlaceholder ==
    /\ [](Cardinality(Placeholders(messages)) <= 1)
    /\ [][ lastEvent'.ev = "send.dispatch"
              => (messages' # <<>> /\ Len(messages') \in Placeholders(messages')) ]_vars
    /\ [][ (lastEvent'.ev = "send.settled" /\ lastEvent'.ok)
              => Placeholders(messages') = {} ]_vars

\* C9 amended: the session client never holds a placeholder; a dispatched
\* send adds the user message alone, and the authoritative list replaces
\* messages wholesale.
C9_NoPlaceholder ==
    /\ [](Placeholders(messages) = {})
    /\ [][ lastEvent'.ev = "send.dispatch"
              => /\ Len(messages') = Len(messages) + 1
                 /\ Last(messages').role = "user" ]_vars
    /\ [][ (lastEvent'.ev = "send.settled" /\ lastEvent'.ok)
              => messages' = Feed(remoteMessages'[lastEvent'.sid]) ]_vars

C9_Witness ==
    /\ lastEvent.ev = "send.settled"
    /\ lastEvent.ok
    /\ messages = Feed(remoteMessages[lastEvent.sid])
    /\ Len(messages) = 4

\* C10 as stated: a dispatched send has added the user message and an empty
\* placeholder and has set isLoading.
C10_UserPlaceholderBusy ==
    [][ lastEvent'.ev = "send.dispatch"
          => /\ Len(messages') = Len(messages) + 2
             /\ messages'[Len(messages') - 1] =
                    Msg(now', "user", Trim(input))
             /\ Len(messages') \in Placeholders(messages')
             /\ isLoading' ]_vars

\* C10 amended: when the dispatch is issued, the send has added the user
\* message, trimmed, as the last message and has set isLoading; it has added
\* no placeholder.
C10_UserThenBusy ==
    [][ lastEvent'.ev = "send.dispatch"
          => /\ messages' = Append(messages, Msg(now', "user", Trim(input)))
             /\ isLoading'
             /\ Len(calls') = Len(calls) + 1
             /\ Last(calls').op = "send" ]_vars

C10_Witness ==
    /\ lastEvent.ev = "send.dispatch"
    /\ isLoading
    /\ Last(messages).role = "user"
    /\ Last(messages).content = << <<"h", "i">> >>
    /\ Cardinality(SendsInFlight) = 1

\* C11 as stated: selecting a session is a local step: it makes the session
\* active, empties messages, leaves isLoading false and issues no request.
C11_SelectIsLocal ==
    [][ lastEvent'.ev \in {"select", "select.again"}
          => /\ sessionId' = lastEvent'.sid
             /\ messages' = <<>>
             /\ ~isLoading'
             /\ calls' = calls ]_vars

\* C11 amended: selecting a session makes it active, sets isLoading and
\* issues one request for the session's messages while messages stay as they
\* are; when the request is answered isLoading is cleared, the active session
\* is not touched, and messages become the list the service returned, or stay
\* as they are when the request failed.
C11_SelectLoadsMessages ==
    /\ [][ lastEvent'.ev \in {"select", "select.again", "delete.select"}
              => /\ lastEvent'.ev # "delete.select" => sessionId' = lastEvent'.sid
                 /\ isLoading'
                 /\ messages' = messages
                 /\ Len(calls') >= Len(calls)
                 /\ \E i \in 1..Len(calls') :
                        /\ calls'[i].op = "select"
                        /\ calls'[i].sid = sessionId' ]_vars
    /\ [][ lastEvent'.ev = "select.settled"
              => /\ ~isLoading'
                 /\ sessionId' = sessionId
                 /\ Len(calls') = Len(calls) - 1
                 /\ messages' = IF lastEvent'.ok
                                THEN Feed(remoteMessages[lastEvent'.sid])
                                ELSE messages ]_vars

C11_Witness ==
    /\ lastEvent.ev = "select.settled"
    /\ lastEvent.ok
    /\ sessionId = lastEvent.sid
    /\ messages = Feed(remoteMessages[sessionId])
    /\ Len(messages) = 2
    /\ ~isLoading

\* C12: a select of the session whose select has just settled, called with
\* nothing else in flight, leaves after its own fetch, whatever its outcome,
\* the active session, the messages and isLoading as the first select left
\* them.  (In the state between the call and the answer the active session
\* and the messages are those the first select left, and isLoading was
\* false.)
C12_SelectTwiceSameState ==
    [][ (lastEvent.ev = "select.again" /\ lastEvent'.ev = "select.settled")
          => /\ sessionId' = sessionId
             /\ messages' = messages
             /\ ~isLoading' ]_vars

\* The step in which the deletion of session d succeeds, d being the active
\* session both when handleDeleteSession was called and when the service
\* answered.
DeletedActive(d) ==
    /\ lastEvent'.ev \in {"delete.settled", "delete.select"}
    /\ lastEvent'.ok
    /\ lastEvent'.sid = d
    /\ sessionId = d
    /\ \E i \in 1..Len(calls) :
          /\ calls[i].op = "delete"
          /\ calls[i].sid = d
          /\ calls[i].cl_sessionId = d
          /\ \/ calls' = RemoveAt(calls, i)
             \/ /\ Len(calls') = Len(calls)
                /\ calls'[i].op = "select"
                /\ \A j \in 1..Len(calls) : j # i => calls'[j] = calls[j]

\* C13: when the deletion of the active session has succeeded, one of the
\* other known sessions is active if there is one; otherwise no session is
\* active and messages is empty.  The deleted session is not active.
C13_DeleteActiveSelectsAnother ==
    [][ \A d \in SessionIds : DeletedActive(d) =>
          /\ sessionId' # d
          /\ IF Known \ {d} # {}
             THEN sessionId' \in Known \ {d}
             ELSE sessionId' = NoSession /\ messages' = <<>> ]_vars

\* C14: a session operation that fails leaves the active session, the
\* messages and the session list as they were before it was called.  For
\* the listing, the creation and the deletion the call itself touches none
\* of the three, so the state before the call is the state before the
\* failure; for the select the state before the call is read in the step the
\* call is answered in, right after the call.
C14_FailedOpChangesNothing ==
    /\ [][ (/\ lastEvent'.ev \in {"companyInfo", "fetchData",
                                  "create.settled", "delete.settled"}
            /\ ~lastEvent'.ok)
              => UNCHANGED <<sessionId, messages, sessions>> ]_vars
    /\ [][ (/\ lastEvent.ev \in {"select", "select.again"}
            /\ lastEvent'.ev = "select.settled"
            /\ ~lastEvent'.ok
            /\ Len(calls) = 1)
              => /\ sessionId' = lastEvent.was
                 /\ messages' = messages
                 /\ sessions' = sessions ]_vars

\* The step answers the await calls[i]: the record is gone, or it is the
\* only one that changed.
StepOf(i) ==
    \/ calls' = RemoveAt(calls, i)
    \/ /\ Len(calls') = Len(calls)
       /\ calls'[i] # calls[i]
       /\ \A j \in 1..Len(calls) : j # i => calls'[j] = calls[j]

\* The step moves the await calls[i] on to the request op.
MovesTo(i, op) ==
    /\ StepOf(i)
    /\ Len(calls') = Len(calls)
    /\ calls'[i].op = op

\* C15: a send without a callback (no stream support) never opens a stream
\* and is never handed an update; once its run is created it polls the run,
\* and it fetches the message list only from the poll that saw the run
\* completed.
C15_NoCallbackPolls ==
    /\ [](\A i \in 1..Len(calls) :
            calls[i].mid = 0 => calls[i].op \notin {"openStream", "stream"})
    /\ [](lastEvent.emits = <<>>)
    /\ [][ \A i \in 1..Len(calls) :
             /\ (calls[i].op = "createRun" /\ calls[i].mid = 0
                     /\ StepOf(i) /\ lastEvent'.ev = "createRun")
                   => MovesTo(i, "retrieveRun")
             /\ (calls[i].op # "listMessages" /\ MovesTo(i, "listMessages"))
                   => /\ calls[i].op = "retrieveRun"
                      /\ lastEvent'.cause = "completed" ]_vars

C15_Witness ==
    \E i \in 1..Len(calls) :
        /\ calls[i].op = "listMessages"
        /\ calls[i].mid = 0
        /\ calls[i].polls = MaxPolls
        /\ lastEvent.ev = "retrieveRun"
        /\ lastEvent.cause = "completed"

\* C16: when the stream cannot be opened the send goes on by polling: the
\* answer to the open either starts the stream or moves the send to the
\* retrieval of the run's status; it does not end the send.
C16_OpenFailureFallsBack ==
    [][ \A i \in 1..Len(calls) :
          (calls[i].op = "openStream" /\ StepOf(i))
             => (MovesTo(i, "stream") \/ MovesTo(i, "retrieveRun")) ]_vars

\* C17: a stream that fails (an error event, or the iteration throwing)
\* after it has delivered a delta ends the send: the send fails, the failure
\* is shown as the last message, and the send issues nothing more.
C17_MidStreamFailureIsTerminal ==
    [][ \A i \in 1..Len(calls) :
          (/\ calls[i].op = "stream"
           /\ calls[i].text # <<>>
           /\ StepOf(i)
           /\ lastEvent'.cause \in {"stream", "event"})
             => /\ calls' = RemoveAt(calls, i)
                /\ lastEvent'.ev = "send.settled"
                /\ ~lastEvent'.ok
                /\ Last(messages').role = "assistant"
                /\ Last(messages').content = <<SorryText>> ]_vars

\* The fragments of a text.
Fragments(text) == {text[k] : k \in 1..Len(text)}

\* C18: on an error event of the stream the callback is handed one update,
\* the content accumulated so far marked as an error, and then the send
\* fails with an error that carries the payload of the event.
C18_ErrorEventEmitsOnce ==
    [][ \A i \in 1..Len(calls) :
          (/\ calls[i].op = "stream"
           /\ StepOf(i)
           /\ lastEvent'.cause = "event")
             => /\ Len(lastEvent'.emits) = 1
                /\ lastEvent'.emits[1] = <<"Error: ">> \o calls[i].text
                /\ lastEvent'.ev = "send.settled"
                /\ ~lastEvent'.ok
                /\ "{payload}" \in Fragments(lastEvent'.error) ]_vars

\* C19: the answer to a status request decides the polling loop: queued and
\* in_progress repeat the request and change nothing else; completed moves
\* on to the message list, and nothing else does; failed, cancelled and
\* expired end the send with an error that carries the status, and nothing
\* else produces that error; after the message list is requested no status
\* request follows.
C19_PollingLoop ==
    [][ \A i \in 1..Len(calls) :
          /\ (calls[i].op = "retrieveRun" /\ StepOf(i)
                 /\ lastEvent'.cause \in RunStatuses)
               => LET status == lastEvent'.cause IN
                  /\ status \in {"queued", "in_progress"}
                       => /\ MovesTo(i, "retrieveRun")
                          /\ UNCHANGED <<messages, isLoading, threadId>>
                  /\ status = "completed" => MovesTo(i, "listMessages")
                  /\ status \in {"failed", "cancelled", "expired"}
                       => /\ calls' = RemoveAt(calls, i)
                          /\ lastEvent'.ev = "send.settled"
                          /\ ~lastEvent'.ok
                          /\ ~isLoading'
                          /\ lastEvent'.error =
                                 <<"Run ended with status: ", status>>
          /\ (calls[i].op # "listMessages" /\ MovesTo(i, "listMessages"))
               => lastEvent'.cause = "completed"
          /\ (StepOf(i) /\ lastEvent'.error # <<>>)
               => /\ calls[i].op = "retrieveRun"
                  /\ lastEvent'.cause \in {"failed", "cancelled", "expired"}
          /\ (calls[i].op = "listMessages" /\ StepOf(i))
               => calls' = RemoveAt(calls, i) ]_vars

C19_Witness ==
    /\ lastEvent.ev = "retrieveRun"
    /\ lastEvent.cause = "in_progress"
    /\ \E i \in 1..Len(calls) :
          calls[i].op = "retrieveRun" /\ calls[i].polls = 2
    /\ isLoading

\* C20: when the run of a send has ended failed, cancelled or expired, the
\* last message is an assistant message whose content names that status,
\* and isLoading is false.  (Message has no error tag of its own; the
\* formula asks for the reference to the status only.)
C20_TerminalStatusShown ==
    [][ lastEvent'.cause \in {"failed", "cancelled", "expired"}
          => /\ ~isLoading'
             /\ Last(messages').role = "assistant"
             /\ lastEvent'.cause \in Fragments(Join(Last(messages').content))
       ]_vars

\* C21: a stream that ends normally is followed, like a poll that saw the
\* run completed, by the request of the message list: the send does not
\* settle on the text it has accumulated.
C21_StreamEndReconciles ==
    [][ \A i \in 1..Len(calls) :
          (/\ calls[i].op = "stream"
           /\ StepOf(i)
           /\ lastEvent'.ev # "delta"
           /\ lastEvent'.cause = "")
             => MovesTo(i, "listMessages") ]_vars

\* The awaits of sendMessageToAssistant in the order it reaches them
\* (openai.ts:70, :74, :80, :89, :91), the stream counted once for every
\* delta it has delivered.
Stage(c) ==
    CASE c.op = "createThread" -> 0
      [] c.op = "addMessage" -> 1
      [] c.op = "createRun" -> 2
      [] c.op = "openStream" -> 3
      [] OTHER -> 4 + Len(c.text)

\* C22: a dispatched send reaches a terminal outcome, and reaches it once.
\* A send in flight can always take a step, and each step of it either ends
\* it or takes it forward through the finite sequence of its awaits, so that
\* it ends after at most 5 + MaxDeltas steps; a terminal outcome ends one
\* send in flight and a send ends in no other way; the outcome is either a
\* success, which adds no error message, or a failure, which adds one; and
\* the observer is updated only by a send that is still in flight.
C22_TerminalOutcomeOnce ==
    /\ [](\A i \in SendsInFlightT :
            \/ ENABLED (\E outcome \in Outcomes : SettleThread(i, outcome))
            \/ ENABLED StreamCloses(i))
    /\ [][ \A i \in SendsInFlightT :
              StepOf(i) => \/ calls' = RemoveAt(calls, i)
                           \/ Stage(calls'[i]) > Stage(calls[i]) ]_vars
    /\ [](\A i \in SendsInFlightT : Stage(calls[i]) <= 4 + MaxDeltas)
    /\ [][ (lastEvent'.ev = "send.settled" /\ ~SendCalled)
              => \E i \in SendsInFlightT : calls' = RemoveAt(calls, i) ]_vars
    /\ [][ (\E i \in SendsInFlightT : calls' = RemoveAt(calls, i))
              => lastEvent'.ev = "send.settled" ]_vars
    /\ [][ (lastEvent'.ev = "send.settled" /\ ~SendCalled)
              => IF lastEvent'.ok
                 THEN Len(messages') = Len(messages)
                 ELSE /\ Len(messages') = Len(messages) + 1
                      /\ Last(messages').content = <<SorryText>> ]_vars
    /\ [][ lastEvent'.emits # <<>>
              => \E i \in SendsInFlightT : StepOf(i) ]_vars

C22_Witness ==
    /\ lastEvent.ev = "send.settled"
    /\ lastEvent.ok
    /\ SendsInFlightT = {}
    /\ \E k \in 1..Len(messages) : messages[k].content = << <<"H", "i">> >>

\* C23: a successful send overwrites the local list: messages is then
\* exactly the list the service returned for the send's session, every
\* message in it carries an id of the service (no message created locally,
\* be it the user's, a placeholder or an error, is left), and isLoading is
\* false.
C23_FinalizeOverwrites ==
    [][ (lastEvent'.ev = "send.settled" /\ lastEvent'.ok)
          => /\ messages' = Feed(remoteMessages'[lastEvent'.sid])
             /\ \A k \in 1..Len(messages') : messages'[k].id < 0
             /\ Placeholders(messages') = {}
             /\ ~isLoading' ]_vars

C23_Witness ==
    /\ lastEvent.ev = "send.settled"
    /\ lastEvent.ok
    /\ ~isLoading
    /\ Len(messages) = 2
    /\ messages = Feed(remoteMessages[lastEvent.sid])
    /\ now = 1

\* C24: after a successful send messages is in chronological order, oldest
\* first, whatever the order in which the service lists them: it is the
\* session's log in the order the messages were written.
C24_FinalizeIsChronological ==
    [][ (lastEvent'.ev = "send.settled" /\ lastEvent'.ok)
          => messages' = remoteMessages'[lastEvent'.sid] ]_vars

\* The deltas a stream has delivered so far: each is one fragment of text.
Prefix(text, k) == SubSeq(text, 1, k)

\* C25: when a stream has delivered the deltas d1..dn to a send that began
\* with an empty text, onMessageUpdate has been called exactly n times, the
\* k-th time with d1 + ... + dk; an event without a text delta calls it not
\* at all; and the content returned when the stream ends is d1 + ... + dn.
C25_DeltasAccumulate ==
    /\ [](\A i \in SendsInFlightT :
            /\ Len(calls[i].seen) = Len(calls[i].text)
            /\ \A k \in 1..Len(calls[i].seen) :
                  calls[i].seen[k] = Prefix(calls[i].text, k))
    /\ [][ lastEvent'.ev = "delta"
              => \E i \in SendsInFlightT, d \in Deltas :
                    /\ calls'[i].text = calls[i].text \o d
                    /\ lastEvent'.emits = << calls'[i].text >> ]_vars
    /\ [][ lastEvent'.ev = "stream.event"
              => (lastEvent'.emits = <<>> /\ calls' = calls
                  /\ messages' = messages) ]_vars
    /\ [][ \A i \in SendsInFlightT :
              (calls[i].op = "stream" /\ calls' = RemoveAt(calls, i)
               /\ lastEvent'.ok)
                => (lastEvent'.content = calls[i].text
                    /\ lastEvent'.emits = <<>>) ]_vars

C25_Witness ==
    /\ lastEvent.ev = "stream.event"
    /\ \E i \in SendsInFlightT :
          calls[i].seen = << <<"H">>, <<"H", "i">> >>

\* C26: a send of a non-empty text while no session is active is not
\* rejected: a request is dispatched for it (the creation of the session,
\* then the message) and no error message is shown.
C26_SendCreatesSession ==
    [][ (SendCalled /\ ~SendRejected /\ sessionId = NoSession)
          => /\ Len(calls') = Len(calls) + 1
             /\ lastEvent'.ev = "send.dispatch"
             /\ Last(messages').role = "user" ]_vars

\* C27: without the credential no request is sent: while the API key is
\* not configured, no request is in flight.
C27_NoRequestWithoutCredential == ~configOk => calls = <<>>

\* C28: no two messages of the list have the same id.
C28_MessageIdsUnique ==
    \A j, k \in 1..Len(messages) :
        j # k => messages[j].id # messages[k].id

\* The messages the client has added to report a failure: the assistant
\* messages with an id of its own clock (App.tsx:138-146 and :167-175).
Injected(message) == message.role = "assistant" /\ message.id > 0

\* C29: a message is shown as an error exactly when it was added to
\* report a failure, whatever its text.
C29_ErrorStyleIffInjected ==
    \A k \in 1..Len(messages) :
        ErrorStyled(messages[k]) <=> Injected(messages[k])

\* C30: the polling loop honours the cancellation of a send: once the send
\* has been cancelled, the answer to a status poll is not followed by
\* another poll; the loop ends there, and isLoading is false.
C30_CancellationStopsPolling ==
    [][ \A i \in 1..Len(calls) :
          (calls[i].cancelled /\ calls[i].op = "retrieveRun" /\ StepOf(i))
             => /\ calls' = RemoveAt(calls, i)
                /\ ~isLoading' ]_vars

\* C31: a session API call that fails with status s throws the
\* authentication message exactly for s = 401, the rate limit message
\* exactly for s = 429, the server error message exactly for s = 500, and
\* its own generic message for every other status and for a fetch without
\* a response.
C31_ClassifiedByStatus ==
    lastEvent.ev = "api.failed" =>
        lastEvent.error =
            (IF lastEvent.was = 401 THEN AuthErrorText
             ELSE IF lastEvent.was = 429 THEN RateLimitText
             ELSE IF lastEvent.was = 500 THEN ServerErrorText
             ELSE GenericText(lastEvent.cause))

\* C32: the result of a select of session A that arrives when another
\* session B has been selected since does not touch messages: whichever
\* fetch completes last, messages is what was fetched for B.
C32_LateSelectIgnored ==
    [][ \A i \in 1..Len(calls) :
          (/\ calls[i].op = "select"
           /\ calls' = RemoveAt(calls, i)
           /\ lastEvent'.ev = "select.settled"
           /\ lastEvent.ev = "select.settled"
           /\ lastEvent.sid = sessionId
           /\ lastEvent.ok
           /\ calls[i].sid # sessionId)
             => messages' = messages ]_vars

\* The sessions of a list, as a set.
SetOf(list) == {list[k] : k \in 1..Len(list)}

\* C33: every create and delete that completes changes the known list by
\* its own session alone: a completed create adds the new session to the
\* list as it is then, a completed delete takes the deleted session out of
\* it, whatever other operation has completed since the call.
C33_ListReflectsCreatesAndDeletes ==
    /\ [][ (lastEvent'.ev = "create.settled" /\ lastEvent'.ok)
              => SetOf(sessions') = SetOf(sessions) \cup {lastEvent'.sid} ]_vars
    /\ [][ (lastEvent'.ev \in {"delete.settled", "delete.select"}
            /\ lastEvent'.ok)
              => SetOf(sessions') = SetOf(sessions) \ {lastEvent'.sid} ]_vars

\* C34: the active session is none or one of the known sessions.
C34_ActiveSessionKnown ==
    sessionId = NoSession \/ sessionId \in SetOf(sessions)

\* The messages of a role, by position.
WithRole(msgs, role) == {k \in 1..Len(msgs) : msgs[k].role = role}

\* C35: every send adds one assistant message for its user message: in
\* the thread client the list holds as many assistant messages as user
\* messages, also after a send has failed.
C35_OneAssistantPerSend ==
    Cardinality(WithRole(messages, "assistant"))
        = Cardinality(WithRole(messages, "user"))

\* The sends in flight whose message is on its thread: those past the
\* await of messages.create.
MessageAdded == {i \in SendsInFlightT : Stage(calls[i]) >= 2}

\* C36: the conversation stays on one thread.  The thread on which a send
\* has just completed stays the thread of the conversation, whenever the
\* createThread of the mount returns; and a send dispatched while the
\* message of an earlier send is on a thread goes to that thread.
C36_ThreadContinuity ==
    /\ [][ (lastEvent.ev = "send.settled" /\ lastEvent.ok
            /\ lastEvent.sid # NoSession /\ threadId = lastEvent.sid)
              => threadId' = threadId ]_vars
    /\ [][ lastEvent'.ev = "send.dispatch"
              => \A i \in MessageAdded :
                    /\ threadId # NoSession
                    /\ Last(calls').sid = calls[i].sid ]_vars

\* C37: a send whose stream threw, while it was opened or while it was
\* iterated, does not return: it ends as a failure, whatever was thrown.
C37_ThrowFailsSend ==
    [][ (lastEvent'.ev = "send.settled"
         /\ lastEvent'.cause \in {"open", "stream"})
            => ~lastEvent'.ok ]_vars

\* C38: a delete of a session that is not the active one, when it has
\* succeeded, has taken that session out of the known list and changed
\* nothing else: the active session and messages are as they were, and
\* isLoading is what the operations still in flight make it, true when
\* there is one and false otherwise.
C38_DeleteOfOtherSessionFrame ==
    [][ (lastEvent'.ev \in {"delete.settled", "delete.select"}
         /\ lastEvent'.ok
         /\ lastEvent'.sid # sessionId)
            => /\ SetOf(sessions') = SetOf(sessions) \ {lastEvent'.sid}
               /\ sessionId' = sessionId
               /\ messages' = messages
               /\ isLoading' = (calls' # <<>>) ]_vars

\* C39: when a create has succeeded the new session is active and known
\* and messages is empty, and this is still so after the result of a
\* select or a send that was in flight when the create returned.
C39_CreatedSessionStaysEmpty ==
    /\ [][ (lastEvent'.ev = "create.settled" /\ lastEvent'.ok)
              => /\ sessionId' = lastEvent'.sid
                 /\ lastEvent'.sid \in SetOf(sessions')
                 /\ messages' = <<>> ]_vars
    /\ [][ (/\ lastEvent.ev = "create.settled"
            /\ lastEvent.ok
            /\ lastEvent'.ev \in {"select.settled", "send.settled"})
              => /\ sessionId' = lastEvent.sid
                 /\ lastEvent.sid \in SetOf(sessions')
                 /\ messages' = <<>> ]_vars

====
